---- MODULE Spec2Model ----
(***************************************************************************)
(* Prepaid-meter ledger: the Transaction Recorder (transactions.js), the   *)
(* Consumption Simulator (unit-consumption.js) and the meter service       *)
(* (services/meterService.js) over one Firebase Realtime Database.         *)
(*                                                                         *)
(* Numbers.  Money is an integer number of cents (KSH 1.10 = 110).  A unit *)
(* quantity is an integer number of ten-thousandths of a unit (0.1 unit =  *)
(* 1000), the finest precision any code path keeps (round4).  Arithmetic   *)
(* is exact decimal arithmetic; the binary error of IEEE doubles is not    *)
(* modelled, and the inputs never produce a toFixed(2) tie (x.xx5).        *)
(*                                                                         *)
(* Store.  db is the database root; db.transactions and                    *)
(* db.unit_consumption are sequences in push-key (creation) order, the     *)
(* key of a record being its index.  Timestamps, names, e-mail, the raw    *)
(* callback payload and the last_payment_* / last_consumption_* metadata   *)
(* are not kept: no decision of the code reads them.                       *)
(***************************************************************************)
EXTENDS Integers, Sequences, FiniteSets, TLC

VARIABLES
    db,       \* the database: users, transactions, unit_consumption, meters
    service,  \* the UnitConsumptionService object: isRunning, and in
              \* intervalId its interval timer while one is armed; timers
              \* counts the interval timers the runtime holds armed
    cb,       \* the request handlers in flight, one per request slot
    tick,     \* the consumeUnitsForAllUsers cycles in flight, one per slot
    origin    \* the store as the raced operations found it (history only)

vars == <<db, service, cb, tick, origin>>

-----------------------------------------------------------------------------
(* Bounds of the model *)

\* transactions the store may hold before payments stop being accepted
MaxTx == 2

\* consumption records the store may hold before ticks and reports stop
MaxCons == 2

\* users the store may hold before registrations stop being accepted
MaxUsers == 3

\* the largest amount paid, in cents: KSH 125.00
MaxAmount == 12500

\* consumption records the store may hold before the cycles of a depletion
\* run stop: two more than the 50 that use up 5.00 units
MaxTicks == 52

\* cycles looked ahead from a store
MaxTicksAhead == 6

-----------------------------------------------------------------------------
(* Program constants *)

\* transactions.js calculateUnits: 1 unit = KSH 25
KshPerUnit == 25

\* unit-consumption.js constructor: 0.1 unit per cycle, in 1e-4 units
consumptionRate == 1000

\* meterService.js: UNITS_PER_KES = 0.05 unit per KSH, as 1e-5 units per cent
UNITS_PER_KES == 50

-----------------------------------------------------------------------------
(* Input domains *)

\* undefined / null / an absent field
Undef == "undef"

\* registered users, in key order, and the meter each registered
UserOrder == <<"U1", "U2">>
Users == {UserOrder[i] : i \in 1..Len(UserOrder)}
MeterOf(u) == IF u = "U1" THEN "M1" ELSE "M2"

\* the meters/ node holds both meters; only M1 was provisioned with its user
MeterNos == {"M1", "M2"}

\* bill references a callback may name: two registered meters, one unknown
BillRefs == {"M1", "M2", "M9"}

\* U1 is the paying customer: payments are initiated for M1 (or for the
\* unknown meter M9), processPayment is called for U1 and the device reports
\* on M1.  U2 is a registered user who buys nothing: every lookup, sum and
\* consumption cycle still goes over both users.
InitiateMeters == {"M1", "M9"}
PayUsers == {"U1"}
ReportMeters == {"M1"}

\* amounts in cents: KSH 3.10 is 0.124 unit, stored as 0.12 (one tick at the
\* full rate, one at the remaining 0.02)
Amounts == {310}

\* amounts paid through processPayment, in cents: KSH 1.33 (0.0665 unit)
PayAmounts == {133}

\* units a device reports, in 1e-4 units: 0.033
DeviceUnits == {330}

\* gateway conversation ids, receipt numbers
ConversationIds == {"K1"}
Receipts == {"R1"}

\* result codes: the number 0, the number 1 (any non-zero code)
ResultCodes == {"n0", "n1"}

\* callback payloads (only the primary field names are present; every alias
\* field of saveCallbackTransaction's extraction is absent)
Payloads ==
    [ ResultCode : ResultCodes,
      MpesaReceiptNumber : Receipts \cup {Undef},
      Amount : Amounts,
      BillRefNumber : BillRefs \cup {Undef},
      OriginatorCoversationID : ConversationIds \cup {Undef},
      PhoneNumber : {"P1"} ]

-----------------------------------------------------------------------------
(* JavaScript helpers *)

\* truthiness: undefined, null, the number 0 and "" are falsy
Truthy(v) == v \notin {Undef, "n0", ""}

\* a || b
Or(a, b) == IF Truthy(a) THEN a ELSE b

Max(a, b) == IF a >= b THEN a ELSE b
Min(a, b) == IF a <= b THEN a ELSE b

\* parseFloat(x.toFixed(2)) for x >= 0 in 1e-4 units: the nearest hundredth
ToFixed2(x) == ((x + 50) \div 100) * 100

\* an optional numeric field: <<>> when absent, <<v>> when present
\* parseFloat(field || 0)
NumOr0(f) == IF f = <<>> THEN 0 ELSE f[1]

-----------------------------------------------------------------------------
(* Transaction Recorder: transactions.js *)

\* mutant: every meter resolves to the first user
findUserIdByMeter_Any(d, meterNo) == UserOrder[1]

\* the first user whose meter_no equals meterNo, or null
findUserIdByMeter(d, meterNo) ==
    LET hits == {i \in 1..Len(UserOrder) : d.users[UserOrder[i]].meter_no = meterNo}
    IN  IF hits = {} THEN Undef
        ELSE UserOrder[CHOOSE i \in hits : \A j \in hits : i <= j]

\* mutant: the quotient is cut to two decimals, not rounded
calculateUnits_Floor(amount) == (((amount * 100) \div KshPerUnit) \div 100) * 100

\* parseFloat((parseFloat(amount) / 25).toFixed(2)): cents / 25 is the
\* quantity in hundredths of a unit, so 4 * cents in 1e-4 units
calculateUnits(amount) == ToFixed2((amount * 100) \div KshPerUnit)

\* parseFloat(amount) % 25, in cents
remainderOf(amount) == amount % (KshPerUnit * 100)

\* mutant: the receipt lookup finds nothing
transactionExists_Blind(d, mpesaReceiptNumber) == FALSE

\* does a transaction carry this receipt number
transactionExists(d, mpesaReceiptNumber) ==
    IF ~Truthy(mpesaReceiptNumber) THEN FALSE
    ELSE \E i \in 1..Len(d.transactions) :
            d.transactions[i].mpesa_receipt = mpesaReceiptNumber

\* mutant: the reference lookup finds nothing
findTransactionByReference_None(d, reference) == 0

\* the id of the first transaction whose reference equals reference, or 0
findTransactionByReference(d, reference) ==
    IF ~Truthy(reference) THEN 0
    ELSE LET hits == {i \in 1..Len(d.transactions) :
                          d.transactions[i].reference = reference}
         IN  IF hits = {} THEN 0 ELSE CHOOSE i \in hits : \A j \in hits : i <= j

\* mutant: every status counts as purchased
CountsAsPurchased_All(status) == TRUE

\* the statuses whose units count as purchased
CountsAsPurchased(status) == status = "SUCCESS" \/ status = "completed"

\* totalPurchasedUnits: the units of the user's counted transactions
RECURSIVE totalPurchasedUnits(_, _)
totalPurchasedUnits(txs, userId) ==
    IF txs = <<>> THEN 0
    ELSE (IF Head(txs).user_id = userId /\ CountsAsPurchased(Head(txs).status)
          THEN NumOr0(Head(txs).units) ELSE 0)
         + totalPurchasedUnits(Tail(txs), userId)

\* totalConsumedUnits: units_consumed over the user's consumption records
RECURSIVE totalConsumedUnits(_, _)
totalConsumedUnits(recs, userId) ==
    IF recs = <<>> THEN 0
    ELSE (IF Head(recs).user_id = userId THEN Head(recs).units_consumed ELSE 0)
         + totalConsumedUnits(Tail(recs), userId)

\* mutant: the difference is not floored at 0
availableFrom_Unclamped(purchased, consumed) == ToFixed2(purchased - consumed)

\* purchased minus consumed, floored at 0, to two decimals
availableFrom(purchased, consumed) == ToFixed2(Max(0, purchased - consumed))

calculateAvailableUnits(d, userId) ==
    availableFrom(totalPurchasedUnits(d.transactions, userId),
                  totalConsumedUnits(d.unit_consumption, userId))

\* a sequence with element i replaced
Replace(seq, i, v) == [seq EXCEPT ![i] = v]

\* createTransactionForMeter(meterNo, amount, status, reference): the store
\* afterwards and the outcome (the transaction returned, or the error thrown)
createTransactionForMeter(d, meterNo, amount, status, reference) ==
    LET userId == findUserIdByMeter(d, meterNo)
        transactionId == Len(d.transactions) + 1
        transaction ==
            [ user_id |-> userId, meter_no |-> meterNo, amount |-> amount,
              units |-> <<calculateUnits(amount)>>,
              remainder |-> <<remainderOf(amount)>>,
              status |-> status, reference |-> reference,
              mpesa_receipt |-> Undef, phone_number |-> Undef,
              result_code |-> Undef, token |-> FALSE ]
        d1 == [d EXCEPT !.transactions = Append(@, transaction)]
        d2 == [d1 EXCEPT !.users[userId].latest_transaction_id = transactionId]
        d3 == [d2 EXCEPT !.users[userId].balance = calculateAvailableUnits(d2, userId)]
    IN  IF userId = Undef
        THEN [db |-> d, ret |-> [thrown |-> TRUE, transaction_id |-> 0]]
        ELSE [db |-> IF status = "SUCCESS" THEN d3 ELSE d1,
              ret |-> [thrown |-> FALSE, transaction_id |-> transactionId]]

\* mutant: the result code is taken as sent, 0 included
cbResultCode_Plain(p) == p.ResultCode

\* saveCallbackTransaction: the fields extracted from the payload
\* (ResultCode || resultCode || 1, and so on, with the alias fields absent)
cbResultCode(p) == Or(Or(p.ResultCode, Undef), "n1")
cbReceipt(p) == Or(Or(p.MpesaReceiptNumber, Undef), Undef)
cbAmount(p) == p.Amount
cbBillRef(p) == Or(Or(p.BillRefNumber, Undef), Undef)
cbPhone(p) == Or(Or(p.PhoneNumber, Undef), Undef)
cbConversationId(p) == Or(p.OriginatorCoversationID, Undef)

\* mutant: every callback is taken as a success
cbStatus_Success(p) == "SUCCESS"

\* resultCode === 0 ? 'SUCCESS' : 'FAILED'
cbStatus(p) == IF cbResultCode(p) = "n0" THEN "SUCCESS" ELSE "FAILED"

\* the values saveCallbackTransaction returns
RetDuplicate ==
    [success |-> TRUE, duplicate |-> TRUE, message |-> "already processed",
     transaction_id |-> 0, status |-> Undef]
RetError(msg) ==
    [success |-> FALSE, duplicate |-> FALSE, message |-> msg,
     transaction_id |-> 0, status |-> Undef]
RetProcessed(id, status) ==
    [success |-> TRUE, duplicate |-> FALSE, message |-> "processed",
     transaction_id |-> id, status |-> status]

\* no return value yet
NoRet == [success |-> FALSE, duplicate |-> FALSE, message |-> Undef,
          transaction_id |-> 0, status |-> Undef]

\* the store call that follows the duplicate check
cbAfterExists(p) == IF Truthy(cbConversationId(p)) THEN "findRef" ELSE "findUser"

\* mutant: the bill reference is not required
cbBegin_Unchecked(p) ==
    [pc |-> IF Truthy(cbReceipt(p)) THEN "exists" ELSE cbAfterExists(p),
     p |-> p, existing |-> 0, userId |-> Undef, transactionId |-> 0,
     purchased |-> 0, availableUnits |-> 0, ret |-> NoRet]

\* an invocation up to its first store call: the extraction and the
\* required-field check
cbBegin(p) ==
    LET l == [pc |-> "done", p |-> p, existing |-> 0, userId |-> Undef,
              transactionId |-> 0, purchased |-> 0, availableUnits |-> 0,
              ret |-> NoRet]
    IN  IF ~Truthy(cbBillRef(p))
        THEN [l EXCEPT !.ret = RetError("BillRefNumber is required")]
        ELSE [l EXCEPT !.pc = IF Truthy(cbReceipt(p)) THEN "exists"
                              ELSE cbAfterExists(p)]

\* the transaction written over an existing one: update() of the listed fields
cbUpdated(tx, p) ==
    [tx EXCEPT !.status = cbStatus(p),
               !.mpesa_receipt = Or(cbReceipt(p), Undef),
               !.phone_number = Or(cbPhone(p), Undef),
               !.result_code = cbResultCode(p)]

\* the transaction created when none matched
cbCreated(userId, p) ==
    [ user_id |-> userId, meter_no |-> cbBillRef(p), amount |-> cbAmount(p),
      units |-> <<>>, remainder |-> <<>>,
      status |-> cbStatus(p), reference |-> Undef,
      mpesa_receipt |-> Or(cbReceipt(p), Undef),
      phone_number |-> Or(cbPhone(p), Undef),
      result_code |-> cbResultCode(p), token |-> FALSE ]

\* one store call of an invocation, and the code up to the next one
cbStep(d, l) ==
    CASE l.pc = "exists" ->
           IF transactionExists(d, cbReceipt(l.p))
           THEN [db |-> d, l |-> [l EXCEPT !.pc = "done", !.ret = RetDuplicate]]
           ELSE [db |-> d, l |-> [l EXCEPT !.pc = cbAfterExists(l.p)]]
      [] l.pc = "findRef" ->
           [db |-> d,
            l |-> [l EXCEPT !.pc = "findUser",
                            !.existing = findTransactionByReference(
                                             d, cbConversationId(l.p))]]
      [] l.pc = "findUser" ->
           LET userId == findUserIdByMeter(d, cbBillRef(l.p))
           IN  IF userId = Undef
               THEN [db |-> d,
                     l |-> [l EXCEPT !.pc = "done",
                                     !.ret = RetError("No user found")]]
               ELSE [db |-> d, l |-> [l EXCEPT !.pc = "write", !.userId = userId]]
      [] l.pc = "write" ->
           LET id == IF l.existing # 0 THEN l.existing ELSE Len(d.transactions) + 1
               txs == IF l.existing # 0
                      THEN Replace(d.transactions, id,
                                   cbUpdated(d.transactions[id], l.p))
                      ELSE Append(d.transactions, cbCreated(l.userId, l.p))
               st == cbStatus(l.p)
           IN  [db |-> [d EXCEPT !.transactions = txs],
                l |-> IF st = "SUCCESS"
                      THEN [l EXCEPT !.pc = "userUpdate", !.transactionId = id]
                      ELSE [l EXCEPT !.pc = "done", !.transactionId = id,
                                     !.ret = RetProcessed(id, st)]]
      [] l.pc = "userUpdate" ->
           [db |-> [d EXCEPT !.users[l.userId].latest_transaction_id =
                                 l.transactionId],
            l |-> [l EXCEPT !.pc = "calcTx"]]
      [] l.pc = "calcTx" ->
           [db |-> d,
            l |-> [l EXCEPT !.pc = "calcCons",
                            !.purchased = totalPurchasedUnits(d.transactions,
                                                              l.userId)]]
      [] l.pc = "calcCons" ->
           [db |-> d,
            l |-> [l EXCEPT !.pc = "balance",
                            !.availableUnits =
                                availableFrom(l.purchased,
                                    totalConsumedUnits(d.unit_consumption,
                                                       l.userId))]]
      [] l.pc = "balance" ->
           [db |-> [d EXCEPT !.users[l.userId].balance = l.availableUnits],
            l |-> [l EXCEPT !.pc = "done",
                            !.ret = RetProcessed(l.transactionId, cbStatus(l.p))]]
      [] OTHER -> [db |-> d, l |-> l]

\* an invocation run to its return with no other operation in between
RECURSIVE cbRun(_, _)
cbRun(d, l) ==
    IF l.pc = "done" THEN [db |-> d, ret |-> l.ret]
    ELSE LET s == cbStep(d, l) IN cbRun(s.db, s.l)

saveCallbackTransaction(d, p) == cbRun(d, cbBegin(p))

\* mutant: a rejected store call is not caught by saveCallbackTransaction
cbFail_Raise(d, l) == [db |-> d, l |-> [l EXCEPT !.pc = "thrown"]]

\* the store call an invocation waits on is rejected: transactionExists and
\* findTransactionByReference answer false and null, calculateAvailableUnits
\* answers 0, a rejected balance update is only logged, and every other
\* rejection ends in the catch of saveCallbackTransaction
cbFail(d, l) ==
    CASE l.pc = "exists" -> [db |-> d, l |-> [l EXCEPT !.pc = cbAfterExists(l.p)]]
      [] l.pc = "findRef" ->
           [db |-> d, l |-> [l EXCEPT !.pc = "findUser", !.existing = 0]]
      [] l.pc \in {"findUser", "write", "userUpdate"} ->
           [db |-> d,
            l |-> [l EXCEPT !.pc = "done", !.ret = RetError("store error")]]
      [] l.pc \in {"calcTx", "calcCons"} ->
           [db |-> d, l |-> [l EXCEPT !.pc = "balance", !.availableUnits = 0]]
      [] l.pc = "balance" ->
           [db |-> d,
            l |-> [l EXCEPT !.pc = "done",
                            !.ret = RetProcessed(l.transactionId, cbStatus(l.p))]]
      [] OTHER -> [db |-> d, l |-> l]

\* POST /daraja/callback: the answer to the gateway for an invocation that
\* has returned (pc "done") or raised (pc "thrown")
darajaResponse(l) ==
    IF l.pc = "thrown"
    THEN [status |-> 200, ResultCode |-> 1, TransactionID |-> 0]
    ELSE IF l.ret.success
         THEN [status |-> 200, ResultCode |-> 0,
               TransactionID |-> l.ret.transaction_id]
         ELSE [status |-> 200, ResultCode |-> 1, TransactionID |-> 0]

\* createTransactionForMeter up to its first store call
ctBegin(meterNo, amount, status, reference) ==
    [pc |-> "ctFindUser", meterNo |-> meterNo, amount |-> amount,
     status |-> status, reference |-> reference, userId |-> Undef,
     transactionId |-> 0, purchased |-> 0, availableUnits |-> 0,
     thrown |-> FALSE]

\* one store call of createTransactionForMeter, and the code up to the next
ctStep(d, l) ==
    CASE l.pc = "ctFindUser" ->
           LET userId == findUserIdByMeter(d, l.meterNo)
           IN  [db |-> d,
                l |-> IF userId = Undef
                      THEN [l EXCEPT !.pc = "done", !.thrown = TRUE]
                      ELSE [l EXCEPT !.pc = "ctSet", !.userId = userId]]
      [] l.pc = "ctSet" ->
           LET transaction ==
                   [ user_id |-> l.userId, meter_no |-> l.meterNo,
                     amount |-> l.amount,
                     units |-> <<calculateUnits(l.amount)>>,
                     remainder |-> <<remainderOf(l.amount)>>,
                     status |-> l.status, reference |-> l.reference,
                     mpesa_receipt |-> Undef, phone_number |-> Undef,
                     result_code |-> Undef, token |-> FALSE ]
           IN  [db |-> [d EXCEPT !.transactions = Append(@, transaction)],
                l |-> [l EXCEPT !.transactionId = Len(d.transactions) + 1,
                                !.pc = IF l.status = "SUCCESS"
                                       THEN "ctUserUpdate" ELSE "done"]]
      [] l.pc = "ctUserUpdate" ->
           [db |-> [d EXCEPT !.users[l.userId].latest_transaction_id =
                                 l.transactionId],
            l |-> [l EXCEPT !.pc = "ctCalcTx"]]
      [] l.pc = "ctCalcTx" ->
           [db |-> d,
            l |-> [l EXCEPT !.pc = "ctCalcCons",
                            !.purchased = totalPurchasedUnits(d.transactions,
                                                              l.userId)]]
      [] l.pc = "ctCalcCons" ->
           [db |-> d,
            l |-> [l EXCEPT !.pc = "ctBalance",
                            !.availableUnits =
                                availableFrom(l.purchased,
                                    totalConsumedUnits(d.unit_consumption,
                                                       l.userId))]]
      [] l.pc = "ctBalance" ->
           [db |-> [d EXCEPT !.users[l.userId].balance = l.availableUnits],
            l |-> [l EXCEPT !.pc = "done"]]
      [] OTHER -> [db |-> d, l |-> l]

\* mutant: every rejected store call is thrown to the caller
ctFail_Throw(d, l) == [db |-> d, l |-> [l EXCEPT !.pc = "done", !.thrown = TRUE]]

\* mutant: a rejected read ends the recompute and the balance is not written
ctFail_Stale(d, l) == [db |-> d, l |-> [l EXCEPT !.pc = "done"]]

\* the store call createTransactionForMeter waits on is rejected:
\* calculateAvailableUnits answers 0, a rejected balance update is only
\* logged, and every other rejection is thrown to the caller
ctFail(d, l) ==
    CASE l.pc \in {"ctFindUser", "ctSet", "ctUserUpdate"} ->
           [db |-> d, l |-> [l EXCEPT !.pc = "done", !.thrown = TRUE]]
      [] l.pc \in {"ctCalcTx", "ctCalcCons"} ->
           [db |-> d, l |-> [l EXCEPT !.pc = "ctBalance", !.availableUnits = 0]]
      [] l.pc = "ctBalance" -> [db |-> d, l |-> [l EXCEPT !.pc = "done"]]
      [] OTHER -> [db |-> d, l |-> l]

-----------------------------------------------------------------------------
(* Consumption Simulator: unit-consumption.js, class UnitConsumptionService *)

\* mutant: the difference is returned as it is, below 0 too
serviceCalculateAvailableUnits_Unfloored(d, userId) ==
    totalPurchasedUnits(d.transactions, userId)
    - totalConsumedUnits(d.unit_consumption, userId)

\* UnitConsumptionService.calculateAvailableUnits: purchased minus consumed,
\* floored at 0 (not rounded)
serviceCalculateAvailableUnits(d, userId) ==
    Max(0, totalPurchasedUnits(d.transactions, userId)
           - totalConsumedUnits(d.unit_consumption, userId))

\* recordUnitConsumption: the record it builds
consumptionRecord(userId, unitsConsumed, unitsBefore, unitsAfter) ==
    [ user_id |-> userId, meter_no |-> Undef,
      units_consumed |-> ToFixed2(unitsConsumed),
      units_before |-> ToFixed2(unitsBefore),
      units_after |-> ToFixed2(unitsAfter),
      consumption_rate |-> <<consumptionRate>>,
      type |-> "automatic_consumption" ]

\* mutant: a rejected store call ends the cycle
tickFail_Abort(d, l) == [db |-> d, l |-> [l EXCEPT !.pc = "done"]]

\* the store call a cycle waits on is rejected: a rejected read of the users
\* ends the cycle, calculateAvailableUnits answers 0 and the user is passed
\* over, and a rejected write is thrown to the loop, which logs it and goes
\* on with the next user
tickFail(d, l) ==
    CASE l.pc = "users" -> [db |-> d, l |-> [l EXCEPT !.pc = "done"]]
      [] l.pc \in {"readTx", "readCons", "record", "userUpdate"} ->
           [db |-> d,
            l |-> [l EXCEPT !.todo = Tail(l.todo),
                            !.pc = IF Tail(l.todo) = <<>> THEN "done"
                                   ELSE "readTx"]]
      [] OTHER -> [db |-> d, l |-> l]

\* recordUnitConsumption: the record pushed, then the user's current_units
recordUnitConsumption(d, userId, unitsConsumed, unitsBefore, unitsAfter) ==
    LET d1 == [d EXCEPT !.unit_consumption =
                   Append(@, consumptionRecord(userId, unitsConsumed,
                                               unitsBefore, unitsAfter))]
    IN  [d1 EXCEPT !.users[userId].current_units = <<ToFixed2(unitsAfter)>>]

\* consumeUnitsForUser
consumeUnitsForUser(d, userId) ==
    LET availableUnits == serviceCalculateAvailableUnits(d, userId)
        unitsToConsume == Min(consumptionRate, availableUnits)
        newAvailableUnits == Max(0, availableUnits - unitsToConsume)
    IN  IF availableUnits <= 0 THEN d
        ELSE recordUnitConsumption(d, userId, unitsToConsume, availableUnits,
                                   newAvailableUnits)

\* the loop of consumeUnitsForAllUsers over the users read at its start
RECURSIVE consumeLoop(_, _)
consumeLoop(d, todo) ==
    IF todo = <<>> THEN d
    ELSE consumeLoop(consumeUnitsForUser(d, Head(todo)), Tail(todo))

consumeUnitsForAllUsers(d) == consumeLoop(d, UserOrder)

\* a cycle up to its first store call (the read of users)
tickBegin == [pc |-> "users", todo |-> <<>>, purchased |-> 0,
              availableUnits |-> 0]

\* the cycle moves to the next user it read at its start, or ends
tickNextUser(l) ==
    [l EXCEPT !.todo = Tail(l.todo),
              !.pc = IF Tail(l.todo) = <<>> THEN "done" ELSE "readTx"]

\* mutant: the cycle takes the user's balance field for the available units
tickAvailableUnits_Cached(d, l) == d.users[Head(l.todo)].balance

\* calculateAvailableUnits of the cycle, at its read of unit_consumption
tickAvailableUnits(d, l) ==
    Max(0, l.purchased - totalConsumedUnits(d.unit_consumption, Head(l.todo)))

\* one store call of a cycle, and the code up to the next one
tickStep(d, l) ==
    CASE l.pc = "users" ->
           [db |-> d, l |-> [l EXCEPT !.todo = UserOrder, !.pc = "readTx"]]
      [] l.pc = "readTx" ->
           [db |-> d,
            l |-> [l EXCEPT !.pc = "readCons",
                            !.purchased = totalPurchasedUnits(d.transactions,
                                                              Head(l.todo))]]
      [] l.pc = "readCons" ->
           LET availableUnits == tickAvailableUnits(d, l)
           IN  [db |-> d,
                l |-> IF availableUnits <= 0 THEN tickNextUser(l)
                      ELSE [l EXCEPT !.pc = "record",
                                     !.availableUnits = availableUnits]]
      [] l.pc = "record" ->
           LET unitsToConsume == Min(consumptionRate, l.availableUnits)
               newAvailableUnits == Max(0, l.availableUnits - unitsToConsume)
           IN  [db |-> [d EXCEPT !.unit_consumption =
                           Append(@, consumptionRecord(Head(l.todo),
                                      unitsToConsume, l.availableUnits,
                                      newAvailableUnits))],
                l |-> [l EXCEPT !.pc = "userUpdate"]]
      [] l.pc = "userUpdate" ->
           LET unitsToConsume == Min(consumptionRate, l.availableUnits)
               newAvailableUnits == Max(0, l.availableUnits - unitsToConsume)
           IN  [db |-> [d EXCEPT !.users[Head(l.todo)].current_units =
                                     <<ToFixed2(newAvailableUnits)>>],
                l |-> tickNextUser(l)]
      [] OTHER -> [db |-> d, l |-> l]

-----------------------------------------------------------------------------
(* Meter service: services/meterService.js *)

\* Math.round(x * 10000) / 10000, x given in 1e-5 units, result in 1e-4 units
round4(x) == (x + 5) \div 10

\* processPayment(userId, meterNo, amount, reference)
processPayment(d, userId, meterNo, amount, reference) ==
    LET units == round4(amount * UNITS_PER_KES)
        newBalance == round4((d.meters[meterNo].balance + units) * 10)
        txData ==
            [ user_id |-> userId, meter_no |-> meterNo, amount |-> amount,
              units |-> <<units>>, remainder |-> <<>>,
              status |-> "SUCCESS", reference |-> Or(reference, Undef),
              mpesa_receipt |-> Undef, phone_number |-> Undef,
              result_code |-> Undef, token |-> TRUE ]
    IN  [d EXCEPT !.meters[meterNo].balance = newBalance,
                  !.users[userId].balance = newBalance,
                  !.transactions = Append(@, txData)]

\* consumeUnits(meterNo, units)
consumeUnits(d, meterNo, units) ==
    LET userId == Or(d.meters[meterNo].user_id, Undef)
        prevBalance == d.meters[meterNo].balance
        newBalance == Max(0, round4((prevBalance - units) * 10))
        logData ==
            [ user_id |-> userId, meter_no |-> meterNo,
              units_consumed |-> units, units_before |-> prevBalance,
              units_after |-> newBalance,
              consumption_rate |-> <<>>, type |-> Undef ]
        d1 == [d EXCEPT !.meters[meterNo].balance = newBalance]
        d2 == IF Truthy(userId)
              THEN [d1 EXCEPT !.users[userId].balance = newBalance] ELSE d1
    IN  [d2 EXCEPT !.unit_consumption = Append(@, logData)]

\* processPayment up to its first store call
ppBegin(userId, meterNo, amount, reference) ==
    [pc |-> "ppTxn", userId |-> userId, meterNo |-> meterNo,
     amount |-> amount, reference |-> reference,
     payUnits |-> round4(amount * UNITS_PER_KES), newBalance |-> 0]

\* one store call of processPayment, and the code up to the next one: the
\* transaction on the meter balance, the set of the user's balance, the set
\* of the transaction
ppStep(d, l) ==
    CASE l.pc = "ppTxn" ->
           LET newBalance == round4((d.meters[l.meterNo].balance + l.payUnits) * 10)
           IN  [db |-> [d EXCEPT !.meters[l.meterNo].balance = newBalance],
                l |-> [l EXCEPT !.pc = "ppUserSet", !.newBalance = newBalance]]
      [] l.pc = "ppUserSet" ->
           [db |-> [d EXCEPT !.users[l.userId].balance = l.newBalance],
            l |-> [l EXCEPT !.pc = "ppTxSet"]]
      [] l.pc = "ppTxSet" ->
           [db |-> [d EXCEPT !.transactions = Append(@,
                       [ user_id |-> l.userId, meter_no |-> l.meterNo,
                         amount |-> l.amount, units |-> <<l.payUnits>>,
                         remainder |-> <<>>, status |-> "SUCCESS",
                         reference |-> Or(l.reference, Undef),
                         mpesa_receipt |-> Undef, phone_number |-> Undef,
                         result_code |-> Undef, token |-> TRUE ])],
            l |-> [l EXCEPT !.pc = "done"]]
      [] OTHER -> [db |-> d, l |-> l]

\* consumeUnits up to its first store call
cuBegin(meterNo, units) ==
    [pc |-> "cuMeta", meterNo |-> meterNo, reported |-> units,
     userId |-> Undef, prevBalance |-> 0, newBalance |-> 0]

\* one store call of consumeUnits, and the code up to the next one: the
\* reads of the meter and of its balance, the transaction on the balance,
\* the set of the user's balance, the set of the record
cuStep(d, l) ==
    CASE l.pc = "cuMeta" ->
           [db |-> d,
            l |-> [l EXCEPT !.pc = "cuPrev",
                            !.userId = Or(d.meters[l.meterNo].user_id, Undef)]]
      [] l.pc = "cuPrev" ->
           [db |-> d,
            l |-> [l EXCEPT !.pc = "cuTxn",
                            !.prevBalance = d.meters[l.meterNo].balance]]
      [] l.pc = "cuTxn" ->
           LET newBalance ==
                   Max(0, round4((d.meters[l.meterNo].balance - l.reported) * 10))
           IN  [db |-> [d EXCEPT !.meters[l.meterNo].balance = newBalance],
                l |-> [l EXCEPT !.newBalance = newBalance,
                                !.pc = IF Truthy(l.userId) THEN "cuUserSet"
                                       ELSE "cuLog"]]
      [] l.pc = "cuUserSet" ->
           [db |-> [d EXCEPT !.users[l.userId].balance = l.newBalance],
            l |-> [l EXCEPT !.pc = "cuLog"]]
      [] l.pc = "cuLog" ->
           [db |-> [d EXCEPT !.unit_consumption = Append(@,
                       [ user_id |-> l.userId, meter_no |-> l.meterNo,
                         units_consumed |-> l.reported,
                         units_before |-> l.prevBalance,
                         units_after |-> l.newBalance,
                         consumption_rate |-> <<>>, type |-> Undef ])],
            l |-> [l EXCEPT !.pc = "done"]]
      [] OTHER -> [db |-> d, l |-> l]

-----------------------------------------------------------------------------
(* The state machine *)

\* a user as POST /users stores it
NewUser(meterNo) ==
    [meter_no |-> meterNo, balance |-> 0, latest_transaction_id |-> 0,
     current_units |-> <<>>]

\* a slot that has served nothing yet
Idle == [pc |-> "idle"]

Slots == {1, 2}

\* a cycle still awaits store calls when the timer fires again
TickSlots == {1, 2}

\* the store with the users registered and nothing paid or consumed
InitialStore ==
    [ users |-> [u \in Users |-> NewUser(MeterOf(u))],
      transactions |-> <<>>,
      unit_consumption |-> <<>>,
      meters |-> [m \in MeterNos |->
                    [balance |-> 0,
                     user_id |-> IF m = "M1" THEN "U1" ELSE Undef]] ]

Init ==
    /\ db = InitialStore
    /\ service = [isRunning |-> FALSE, intervalId |-> Undef, timers |-> 0]
    /\ cb = [s \in Slots |-> Idle]
    /\ tick = [s \in TickSlots |-> Idle]
    /\ origin = db

\* mutant: start() without the isRunning check arms a timer on every call
Start_Unguarded ==
    /\ service' = [isRunning |-> TRUE, intervalId |-> "timer",
                   timers |-> service.timers + 1]
    /\ UNCHANGED <<db, cb, tick, origin>>

\* start()
Start ==
    /\ ~service.isRunning
    /\ service' = [isRunning |-> TRUE, intervalId |-> "timer",
                   timers |-> service.timers + 1]
    /\ UNCHANGED <<db, cb, tick, origin>>

\* start() while running: logged, nothing changes
StartAgain ==
    /\ service.isRunning
    /\ UNCHANGED vars

\* mutant: stop() clears the flag and leaves the timer armed
Stop_KeepTimer ==
    /\ service.isRunning
    /\ service' = [service EXCEPT !.isRunning = FALSE]
    /\ UNCHANGED <<db, cb, tick, origin>>

\* stop(): clearInterval(this.intervalId) cancels the timer
Stop ==
    /\ service.isRunning
    /\ service' = [isRunning |-> FALSE, intervalId |-> Undef,
                   timers |-> IF service.intervalId = "timer"
                              THEN service.timers - 1 ELSE service.timers]
    /\ UNCHANGED <<db, cb, tick, origin>>

\* stop() while stopped: logged, nothing changes
StopAgain ==
    /\ ~service.isRunning
    /\ UNCHANGED vars

\* the interval timer fires: one consumeUnitsForAllUsers cycle
Tick ==
    /\ service.timers > 0
    /\ Len(db.unit_consumption) < MaxCons
    /\ db' = consumeUnitsForAllUsers(db)
    /\ UNCHANGED <<service, cb, tick, origin>>

\* POST /daraja/simulate after the gateway accepted the request:
\* createTransactionForMeter(meter_no, amount, status, conversation id)
Initiate(meterNo, amount, status, reference) ==
    /\ Len(db.transactions) < MaxTx
    /\ db' = createTransactionForMeter(db, meterNo, amount, status, reference).db
    /\ UNCHANGED <<service, cb, tick, origin>>

\* POST /daraja/callback: saveCallbackTransaction(payload), start to return
Callback(p) ==
    /\ LET r == saveCallbackTransaction(db, p)
       IN  /\ Len(r.db.transactions) <= MaxTx
           /\ db' = r.db
    /\ UNCHANGED <<service, cb, tick, origin>>

\* processPayment for a user and the meter that user registered
Pay(userId, amount) ==
    /\ Len(db.transactions) < MaxTx
    /\ db' = processPayment(db, userId, db.users[userId].meter_no, amount, Undef)
    /\ UNCHANGED <<service, cb, tick, origin>>

\* the device reports consumption: consumeUnits(meterNo, units)
Report(meterNo, units) ==
    /\ Len(db.unit_consumption) < MaxCons
    /\ db' = consumeUnits(db, meterNo, units)
    /\ UNCHANGED <<service, cb, tick, origin>>

Next ==
    \/ Start
    \/ Stop
    \/ Tick
    \/ \E m \in InitiateMeters, a \in Amounts, st \in {"SUCCESS", "PENDING"},
          ref \in ConversationIds \cup {Undef} : Initiate(m, a, st, ref)
    \/ \E p \in Payloads : Callback(p)
    \/ \E u \in PayUsers, a \in PayAmounts : Pay(u, a)
    \/ \E m \in ReportMeters, n \in DeviceUnits : Report(m, n)
    \/ StartAgain
    \/ StopAgain

\* every operation runs from start to return before the next one starts
Spec == Init /\ [][Next]_vars

-----------------------------------------------------------------------------
(* Callbacks in flight together: each request suspends at its store calls *)

\* the callbacks of the concurrent runs: one receipt, for meter M1, with and
\* without the conversation id of an initiated payment
ConcPayloads ==
    [ ResultCode : {"n0"},
      MpesaReceiptNumber : Receipts,
      Amount : Amounts,
      BillRefNumber : {"M1"},
      OriginatorCoversationID : ConversationIds \cup {Undef},
      PhoneNumber : {"P1"} ]

\* a callback request arrives on a free slot and runs to its first store call
CallbackBegin(s, p) ==
    /\ cb[s].pc \in {"idle", "done"}
    /\ cb' = [cb EXCEPT ![s] = cbBegin(p)]
    /\ UNCHANGED <<db, service, tick, origin>>

\* the store answers the call a request waits on; the request runs on to its
\* next store call, or returns
CallbackStep(s) ==
    /\ cb[s].pc \notin {"idle", "done"}
    /\ "p" \in DOMAIN cb[s]
    /\ LET r == cbStep(db, cb[s])
       IN  /\ Len(r.db.transactions) <= MaxTx
           /\ db' = r.db
           /\ cb' = [cb EXCEPT ![s] = r.l]
    /\ UNCHANGED <<service, tick, origin>>

NextConc ==
    \/ \E ref \in ConversationIds \cup {Undef} :
          Initiate("M1", 310, "SUCCESS", ref)
    \/ \E s \in Slots, p \in ConcPayloads : CallbackBegin(s, p)
    \/ \E s \in Slots : CallbackStep(s)

SpecConc == Init /\ [][NextConc]_vars

-----------------------------------------------------------------------------
(* Cycles and requests that suspend at their store calls *)

\* the interval timer fires: a cycle starts and runs to its read of users
TickBegin(s) ==
    /\ service.timers > 0
    /\ tick[s].pc \in {"idle", "done"}
    /\ tick' = [tick EXCEPT ![s] = tickBegin]
    /\ UNCHANGED <<db, service, cb, origin>>

\* the store answers the call a cycle waits on
TickStep(s) ==
    /\ tick[s].pc \notin {"idle", "done"}
    /\ LET r == tickStep(db, tick[s])
       IN  /\ db' = r.db
           /\ tick' = [tick EXCEPT ![s] = r.l]
    /\ UNCHANGED <<service, cb, origin>>

\* POST /daraja/simulate reaches createTransactionForMeter on a free slot
InitiateBegin(s, meterNo, amount, status, reference) ==
    /\ cb[s].pc \in {"idle", "done"}
    /\ cb' = [cb EXCEPT ![s] = ctBegin(meterNo, amount, status, reference)]
    /\ UNCHANGED <<db, service, tick, origin>>

\* the store answers the call createTransactionForMeter waits on
InitiateStep(s) ==
    /\ cb[s].pc \notin {"idle", "done"}
    /\ "reference" \in DOMAIN cb[s]
    /\ LET r == ctStep(db, cb[s])
       IN  /\ db' = r.db
           /\ cb' = [cb EXCEPT ![s] = r.l]
    /\ UNCHANGED <<service, tick, origin>>

-----------------------------------------------------------------------------
(* Registration: POST /users *)

\* String.prototype.trim on the strings of the model
trim(str) ==
    CASE str = " M7 " -> "M7"
      [] str = " a@x " -> "a@x"
      [] OTHER -> str

\* String.prototype.toLowerCase on the strings of the model
toLowerCase(str) ==
    CASE str = "A@x" -> "a@x"
      [] OTHER -> str

\* the request bodies: emails and meter numbers that differ by case or by
\* surrounding blanks, or are missing
RegEmails == {"a@x", "A@x", " a@x ", "b@x"}
RegMeters == {"M7", " M7 ", "M8"}
RegBodies ==
    [ name : {"N"}, email : RegEmails \cup {Undef},
      meter_no : RegMeters, phone_number : {"P1"} ]

\* the keys push() gives to users, in the order they are given
UserKeys == <<"U1", "U2", "U3", "U4", "U5">>

\* the handler up to its first store call: the required-field check
regBegin(body) ==
    IF \/ ~Truthy(body.name) \/ ~Truthy(body.email)
       \/ ~Truthy(body.meter_no) \/ ~Truthy(body.phone_number)
    THEN [pc |-> "done", body |-> body, status |-> 400]
    ELSE [pc |-> "regRead", body |-> body, status |-> 0]

\* the user record the handler stores
userData(body) ==
    [ name |-> trim(body.name),
      email |-> toLowerCase(trim(body.email)),
      meter_no |-> trim(body.meter_no),
      phone_number |-> trim(body.phone_number),
      balance |-> 0, latest_transaction_id |-> 0 ]

\* one store call of the handler, and the code up to the next one
regStep(d, l) ==
    CASE l.pc = "regRead" ->
           IF \E k \in DOMAIN d.users :
                  \/ d.users[k].email = l.body.email
                  \/ d.users[k].meter_no = l.body.meter_no
           THEN [db |-> d, l |-> [l EXCEPT !.pc = "done", !.status = 409]]
           ELSE [db |-> d, l |-> [l EXCEPT !.pc = "regWrite"]]
      [] l.pc = "regWrite" ->
           LET key == UserKeys[Cardinality(DOMAIN d.users) + 1]
           IN  [db |-> [d EXCEPT !.users =
                           [k \in DOMAIN d.users \cup {key} |->
                               IF k = key THEN userData(l.body)
                               ELSE d.users[k]]],
                l |-> [l EXCEPT !.pc = "done", !.status = 201]]
      [] OTHER -> [db |-> d, l |-> l]

\* the requests that have not returned yet
RegInFlight == {s \in Slots : cb[s].pc \notin {"idle", "done"}}

\* a registration request arrives on a free slot
RegisterBegin(s, body) ==
    /\ cb[s].pc \in {"idle", "done"}
    /\ Cardinality(DOMAIN db.users) + Cardinality(RegInFlight) < MaxUsers
    /\ cb' = [cb EXCEPT ![s] = regBegin(body)]
    /\ UNCHANGED <<db, service, tick, origin>>

\* the store answers the call a registration waits on
RegisterStep(s) ==
    /\ cb[s].pc \notin {"idle", "done"}
    /\ "body" \in DOMAIN cb[s]
    /\ LET r == regStep(db, cb[s])
       IN  /\ db' = r.db
           /\ cb' = [cb EXCEPT ![s] = r.l]
    /\ UNCHANGED <<service, tick, origin>>

\* no user is registered yet
InitReg ==
    /\ db = [InitialStore EXCEPT !.users = <<>>]
    /\ service = [isRunning |-> FALSE, intervalId |-> Undef, timers |-> 0]
    /\ cb = [s \in Slots |-> Idle]
    /\ tick = [s \in TickSlots |-> Idle]
    /\ origin = db

NextReg ==
    \/ \E s \in Slots, body \in RegBodies : RegisterBegin(s, body)
    \/ \E s \in Slots : RegisterStep(s)

SpecReg == InitReg /\ [][NextReg]_vars

-----------------------------------------------------------------------------
(* Unit conversion: two purchases of amounts one cent apart *)

\* both purchases are requested for the registered meter
InitUnits ==
    /\ db = InitialStore
    /\ service = [isRunning |-> FALSE, intervalId |-> Undef, timers |-> 0]
    /\ \E a \in 0..(MaxAmount - 1) :
          cb = [s \in Slots |-> ctBegin("M1", a + s - 1, "SUCCESS", Undef)]
    /\ tick = [s \in TickSlots |-> Idle]
    /\ origin = db

\* the second purchase runs when the first has returned
NextUnits ==
    \/ InitiateStep(1)
    \/ cb[1].pc = "done" /\ InitiateStep(2)

SpecUnits == InitUnits /\ [][NextUnits]_vars

-----------------------------------------------------------------------------
(* Depletion: cycle after cycle with no purchase in between *)

\* the stores a depletion run starts from: 5.00 units bought; 0.12 units
\* bought; 0.12 units bought and 0.033 reported by the device; one and two
\* processPayment purchases of 0.0665 unit
DepleteStarts ==
    LET paid == createTransactionForMeter(InitialStore, "M1", 310, "SUCCESS",
                                          Undef).db
        token == processPayment(InitialStore, "U1", "M1", 133, Undef)
    IN  { createTransactionForMeter(InitialStore, "M1", MaxAmount, "SUCCESS",
                                    Undef).db,
          paid,
          consumeUnits(paid, "M1", 330),
          token,
          processPayment(token, "U1", "M1", 133, Undef) }

InitDeplete ==
    /\ db \in DepleteStarts
    /\ service = [isRunning |-> TRUE, intervalId |-> "timer", timers |-> 1]
    /\ cb = [s \in Slots |-> Idle]
    /\ tick = [s \in TickSlots |-> Idle]
    /\ origin = db

\* the timer fires when the cycle before has ended
NextDeplete ==
    \/ Len(db.unit_consumption) < MaxTicks /\ TickBegin(1)
    \/ TickStep(1)

SpecDeplete == InitDeplete /\ [][NextDeplete]_vars

\* the timer keeps firing and the store keeps answering: a cycle that can
\* start or go on eventually does
SpecDepleteFair == SpecDeplete /\ WF_vars(NextDeplete)

-----------------------------------------------------------------------------
(* Balance by meter: GET /users/:meterNo/balance *)

\* the values a balance field may hold in the store, by their typeof
JsNumber(n) == [type |-> "number", num |-> n]
JsString(str) == [type |-> "string", str |-> str]
JsUndefined == [type |-> "undefined"]

\* parseFloat on the strings of the model: <<>> is NaN
parseFloatOf(str) ==
    CASE str = "0.07" -> <<700>>
      [] OTHER -> <<>>

\* mutant: every falsy balance, the number 0 included, counts as missing
persistedBalance_Falsy(balance) ==
    CASE balance.type = "number" /\ balance.num # 0 -> <<balance.num>>
      [] balance.type = "string" /\ balance.str # "" -> parseFloatOf(balance.str)
      [] OTHER -> <<>>

\* typeof user.balance === 'number' ? user.balance
\*     : (user.balance ? parseFloat(user.balance) : null);
\* <<>> stands for null and for NaN, which the handler treats alike
persistedBalance(balance) ==
    CASE balance.type = "number" -> <<balance.num>>
      [] balance.type = "string" /\ balance.str # "" -> parseFloatOf(balance.str)
      [] OTHER -> <<>>

\* calculateUserBalance(userId).availableUnits
userBalanceAvailableUnits(d, userId) ==
    IF \A i \in 1..Len(d.transactions) : d.transactions[i].user_id # userId
    THEN 0
    ELSE calculateAvailableUnits(d, userId)

\* the handler: status and availableUnits of its response
getBalance(d, meterNo) ==
    LET userId == findUserIdByMeter(d, meterNo)
    IN  IF ~Truthy(userId)
        THEN [status |-> 404, availableUnits |-> <<>>]
        ELSE LET persisted == persistedBalance(d.users[userId].balance)
             IN  IF persisted # <<>>
                 THEN [status |-> 200,
                       availableUnits |-> <<ToFixed2(persisted[1])>>]
                 ELSE [status |-> 200,
                       availableUnits |->
                           <<userBalanceAvailableUnits(d, userId)>>]

\* what the balance field of U1 may hold
BalanceFields ==
    { JsNumber(0), JsNumber(1200), JsNumber(665), JsString("0.07"),
      JsString("abc"), JsString(""), JsUndefined }

\* a store with the balance fields shown by their typeof, U1's replaced
withBalanceField(d, field) ==
    [d EXCEPT !.users =
        [u \in Users |->
            [d.users[u] EXCEPT !.balance =
                IF u = "U1" THEN field ELSE JsNumber(@)]]]

\* nothing paid; 0.12 units paid; that and 0.033 reported; 0.0665 unit
\* bought by processPayment; 0.12 units paid and one cycle run
BalanceStarts ==
    LET paid == createTransactionForMeter(InitialStore, "M1", 310, "SUCCESS",
                                          Undef).db
    IN  { InitialStore, paid, consumeUnits(paid, "M1", 330),
          processPayment(InitialStore, "U1", "M1", 133, Undef),
          consumeUnitsForAllUsers(paid) }

InitBalance ==
    /\ \E d \in BalanceStarts, field \in BalanceFields :
          db = withBalanceField(d, field)
    /\ service = [isRunning |-> FALSE, intervalId |-> Undef, timers |-> 0]
    /\ cb = [s \in Slots |-> Idle]
    /\ tick = [s \in TickSlots |-> Idle]
    /\ origin = db

\* a balance request is served
GetBalance(s, meterNo) ==
    /\ cb' = [cb EXCEPT ![s] = [pc |-> "done", meterNo |-> meterNo,
                                response |-> getBalance(db, meterNo)]]
    /\ UNCHANGED <<db, service, tick, origin>>

NextBalance == \E s \in Slots, m \in BillRefs : GetBalance(s, m)

SpecBalance == InitBalance /\ [][NextBalance]_vars

-----------------------------------------------------------------------------
(* Payments with store calls that may be rejected *)

\* the callbacks of these runs: for the meter of U1, for a meter of no user
\* and with no bill reference
FailPayloads ==
    [ ResultCode : ResultCodes,
      MpesaReceiptNumber : Receipts \cup {Undef},
      Amount : Amounts,
      BillRefNumber : {"M1", "M9", Undef},
      OriginatorCoversationID : ConversationIds \cup {Undef},
      PhoneNumber : {"P1"} ]

\* the store rejects the call a callback request waits on
CallbackFail(s) ==
    /\ cb[s].pc \notin {"idle", "done", "thrown"}
    /\ "p" \in DOMAIN cb[s]
    /\ LET r == cbFail(db, cb[s])
       IN  /\ db' = r.db
           /\ cb' = [cb EXCEPT ![s] = r.l]
    /\ UNCHANGED <<service, tick, origin>>

\* the store rejects the call createTransactionForMeter waits on
InitiateFail(s) ==
    /\ cb[s].pc \notin {"idle", "done"}
    /\ "reference" \in DOMAIN cb[s]
    /\ LET r == ctFail(db, cb[s])
       IN  /\ db' = r.db
           /\ cb' = [cb EXCEPT ![s] = r.l]
    /\ UNCHANGED <<service, tick, origin>>

\* requests are served one after the other
NextFail ==
    \/ \E p \in FailPayloads : CallbackBegin(1, p)
    \/ CallbackStep(1)
    \/ CallbackFail(1)
    \/ \E m \in InitiateMeters, st \in {"SUCCESS", "PENDING"},
          ref \in ConversationIds \cup {Undef} :
          Len(db.transactions) < MaxTx /\ InitiateBegin(1, m, 310, st, ref)
    \/ InitiateStep(1)
    \/ InitiateFail(1)

SpecFail == Init /\ [][NextFail]_vars

-----------------------------------------------------------------------------
(* Cycles with store calls that may be rejected *)

\* the store rejects the call a cycle waits on
TickFail(s) ==
    /\ tick[s].pc \notin {"idle", "done"}
    /\ LET r == tickFail(db, tick[s])
       IN  /\ db' = r.db
           /\ tick' = [tick EXCEPT ![s] = r.l]
    /\ UNCHANGED <<service, cb, origin>>

\* the stores the cycles start from: both users have paid; U1 has paid and
\* the device has reported; only U2 has paid
TickFailStarts ==
    LET paid1 == createTransactionForMeter(InitialStore, "M1", 310, "SUCCESS",
                                           Undef).db
        paid2 == createTransactionForMeter(InitialStore, "M2", 310, "SUCCESS",
                                           Undef).db
    IN  { createTransactionForMeter(paid1, "M2", 310, "SUCCESS", Undef).db,
          createTransactionForMeter(consumeUnits(paid1, "M1", 330), "M2", 310,
                                    "SUCCESS", Undef).db,
          paid2 }

InitTickFail ==
    /\ db \in TickFailStarts
    /\ service = [isRunning |-> TRUE, intervalId |-> "timer", timers |-> 1]
    /\ cb = [s \in Slots |-> Idle]
    /\ tick = [s \in TickSlots |-> Idle]
    /\ origin = db

\* the timer fires when the cycle before has ended
NextTickFail ==
    \/ Len(db.unit_consumption) < MaxCons + 1 /\ TickBegin(1)
    \/ TickStep(1)
    \/ TickFail(1)

SpecTickFail == InitTickFail /\ [][NextTickFail]_vars

-----------------------------------------------------------------------------
(* processPayment and consumeUnits in flight together on one meter *)

\* a processPayment call begins
PayBegin(s, userId, amount) ==
    /\ cb[s].pc = "idle"
    /\ cb' = [cb EXCEPT ![s] = ppBegin(userId, db.users[userId].meter_no,
                                       amount, Undef)]
    /\ UNCHANGED <<db, service, tick, origin>>

\* the store answers the call a processPayment waits on
PayStep(s) ==
    /\ cb[s].pc \notin {"idle", "done"}
    /\ "payUnits" \in DOMAIN cb[s]
    /\ LET r == ppStep(db, cb[s])
       IN  /\ db' = r.db
           /\ cb' = [cb EXCEPT ![s] = r.l]
    /\ UNCHANGED <<service, tick, origin>>

\* a consumeUnits call begins
ReportBegin(s, meterNo, units) ==
    /\ cb[s].pc = "idle"
    /\ cb' = [cb EXCEPT ![s] = cuBegin(meterNo, units)]
    /\ UNCHANGED <<db, service, tick, origin>>

\* the store answers the call a consumeUnits waits on
ReportStep(s) ==
    /\ cb[s].pc \notin {"idle", "done"}
    /\ "reported" \in DOMAIN cb[s]
    /\ LET r == cuStep(db, cb[s])
       IN  /\ db' = r.db
           /\ cb' = [cb EXCEPT ![s] = r.l]
    /\ UNCHANGED <<service, tick, origin>>

\* the stores the calls start from: nothing bought; 0.0665 and 0.133 unit
\* bought; 0.0665 bought and 0.033 reported
MeterStarts ==
    LET token == processPayment(InitialStore, "U1", "M1", 133, Undef)
    IN  { InitialStore, token,
          processPayment(token, "U1", "M1", 133, Undef),
          consumeUnits(token, "M1", 330) }

\* the amounts paid and the units reported in these runs
MeterAmounts == {133, 1000}
MeterReports == {330, 1000}

InitMeter ==
    /\ db \in MeterStarts
    /\ service = [isRunning |-> FALSE, intervalId |-> Undef, timers |-> 0]
    /\ cb = [s \in Slots |-> Idle]
    /\ tick = [s \in TickSlots |-> Idle]
    /\ origin = db

\* one processPayment and one consumeUnits, in every order of their steps
NextMeter ==
    \/ \E a \in MeterAmounts : PayBegin(1, "U1", a)
    \/ PayStep(1)
    \/ \E n \in MeterReports : ReportBegin(2, "M1", n)
    \/ ReportStep(2)

SpecMeter == InitMeter /\ [][NextMeter]_vars

-----------------------------------------------------------------------------
(* One payment racing one consumption cycle *)

\* the stores the race starts from: nothing paid; a payment initiated as
\* SUCCESS or PENDING under conversation id K1; that payment and a device
\* report; a processPayment; the initiated payment and one cycle
RaceStarts ==
    LET paid == createTransactionForMeter(InitialStore, "M1", 310, "SUCCESS",
                                          "K1").db
    IN  { InitialStore,
          paid,
          createTransactionForMeter(InitialStore, "M1", 310, "PENDING",
                                    "K1").db,
          consumeUnits(paid, "M1", 330),
          processPayment(InitialStore, "U1", "M1", 133, Undef),
          consumeUnitsForAllUsers(paid) }

\* the callbacks that race a cycle: for the meter of U1
RacePayloads == {p \in Payloads : p.BillRefNumber = "M1"}

InitRace ==
    /\ db \in RaceStarts
    /\ service = [isRunning |-> TRUE, intervalId |-> "timer", timers |-> 1]
    /\ cb = [s \in Slots |-> Idle]
    /\ tick = [s \in TickSlots |-> Idle]
    /\ origin = db

NextRace ==
    \/ tick[1].pc = "idle" /\ TickBegin(1)
    \/ TickStep(1)
    \/ \E st \in {"SUCCESS", "PENDING"}, ref \in ConversationIds \cup {Undef} :
          cb[1].pc = "idle" /\ InitiateBegin(1, "M1", 310, st, ref)
    \/ InitiateStep(1)
    \/ \E p \in RacePayloads : cb[1].pc = "idle" /\ CallbackBegin(1, p)
    \/ CallbackStep(1)

SpecRace == InitRace /\ [][NextRace]_vars

-----------------------------------------------------------------------------
(* The timer against cycles in flight *)

NextTimer ==
    \/ Start
    \/ Stop
    \/ StartAgain
    \/ StopAgain
    \/ \E ref \in ConversationIds \cup {Undef} :
          Initiate("M1", 310, "SUCCESS", ref)
    \/ \E s \in TickSlots :
          Len(db.unit_consumption) < MaxCons /\ TickBegin(s)
    \/ \E s \in TickSlots : TickStep(s)

SpecTimer == Init /\ [][NextTimer]_vars

-----------------------------------------------------------------------------
(* Rejected reads of calculateAvailableUnits, in payments and in cycles *)

\* U1 has paid, or U1 and U2 have paid (U1's units are there from the start)
ReadFailStarts ==
    LET paid1 == createTransactionForMeter(InitialStore, "M1", 310, "SUCCESS",
                                           Undef).db
    IN  { paid1,
          createTransactionForMeter(paid1, "M2", 310, "SUCCESS", Undef).db }

InitReadFail ==
    /\ db \in ReadFailStarts
    /\ service = [isRunning |-> TRUE, intervalId |-> "timer", timers |-> 1]
    /\ cb = [s \in Slots |-> Idle]
    /\ tick = [s \in TickSlots |-> Idle]
    /\ origin = db

\* one further payment for M1 and the cycles of the timer, every store call
\* of either answered or rejected
NextReadFail ==
    \/ \E ref \in ConversationIds \cup {Undef} :
          /\ Len(db.transactions) = Len(origin.transactions)
          /\ InitiateBegin(1, "M1", 310, "SUCCESS", ref)
    \/ InitiateStep(1)
    \/ InitiateFail(1)
    \/ Len(db.unit_consumption) < MaxCons /\ TickBegin(1)
    \/ TickStep(1)
    \/ TickFail(1)

SpecReadFail == InitReadFail /\ [][NextReadFail]_vars

-----------------------------------------------------------------------------
(* Properties *)

\* the ids of the transactions that carry receipt r
WithReceipt(d, r) ==
    {i \in 1..Len(d.transactions) : d.transactions[i].mpesa_receipt = r}

\* some user registered this meter number
Registered(meterNo) == \E u \in Users : db.users[u].meter_no = meterNo

\* payloads that carry a receipt number and name a registered meter
ReceiptPayloads ==
    {p \in Payloads : p.MpesaReceiptNumber \in Receipts
                      /\ Registered(p.BillRefNumber)}

\* C1: from any reachable store, saveCallbackTransaction called twice in
\* sequence with payloads that carry the same receipt number and name
\* registered meters leaves exactly one transaction with that receipt; the
\* second call returns success with duplicate = true and leaves the whole
\* store (transactions and users) as the first call left it.
C1_SecondCallIsDuplicate ==
    LET payloads == ReceiptPayloads
    IN  \A p1 \in payloads :
            LET r1 == saveCallbackTransaction(db, p1)
                first == r1.db
            IN  /\ Cardinality(WithReceipt(first, p1.MpesaReceiptNumber)) = 1
                /\ \A p2 \in payloads :
                       p2.MpesaReceiptNumber = p1.MpesaReceiptNumber =>
                           LET r2 == saveCallbackTransaction(first, p2)
                           IN  /\ r2.ret.success /\ r2.ret.duplicate
                               /\ r2.db = first

\* C1 witness: a callback has recorded receipt R1 on a transaction, so a
\* second callback with R1 meets it
C1_Witness ==
    \E i \in 1..Len(db.transactions) :
        /\ db.transactions[i].mpesa_receipt = "R1"
        /\ db.transactions[i].result_code # Undef

\* C2: at most one transaction carries any given receipt number, also while
\* callbacks are in flight together.
C2_OneTransactionPerReceipt ==
    \A r \in Receipts : Cardinality(WithReceipt(db, r)) <= 1

\* a callback the handler records: it names a registered meter and its
\* receipt number is not on a transaction yet
Recorded(p) ==
    /\ Registered(p.BillRefNumber)
    /\ p.MpesaReceiptNumber \in Receipts =>
           WithReceipt(db, p.MpesaReceiptNumber) = {}

\* C3: a recorded callback gets status SUCCESS exactly when its result code
\* is 0 and FAILED for every other result code, in the value returned and on
\* the transaction written.
C3_StatusFromResultCode ==
    \A p \in Payloads :
        Recorded(p) =>
            LET r == saveCallbackTransaction(db, p)
                expected == IF p.ResultCode = "n0" THEN "SUCCESS" ELSE "FAILED"
            IN  /\ r.ret.status = expected
                /\ r.db.transactions[r.ret.transaction_id].status = expected

\* the first transaction whose reference is the callback's conversation id
\* (0: none, or no conversation id)
Matched(p) ==
    LET same == {i \in 1..Len(db.transactions) :
                    /\ p.OriginatorCoversationID \in ConversationIds
                    /\ db.transactions[i].reference = p.OriginatorCoversationID}
    IN  IF same = {} THEN 0 ELSE CHOOSE i \in same : \A j \in same : i <= j

\* C4 (as stated): a callback whose conversation id equals the reference of
\* an existing PENDING or SUCCESS transaction updates that transaction in
\* place (count unchanged, returned id = its id); when no transaction has
\* that reference or no conversation id is present, exactly one transaction
\* is created.
C4_AsStated ==
    \A p \in Payloads :
        LET e == Matched(p)
            n == Len(db.transactions)
            r == saveCallbackTransaction(db, p)
        IN  /\ (e # 0 /\ db.transactions[e].status \in {"PENDING", "SUCCESS"}) =>
                    /\ Len(r.db.transactions) = n
                    /\ r.ret.success /\ r.ret.transaction_id = e
            /\ e = 0 => Len(r.db.transactions) = n + 1

\* C4 (amended): for a callback that names a registered meter and whose
\* receipt number is not on a transaction yet: if its conversation id equals
\* the reference of an existing transaction, that transaction is updated in
\* place (count unchanged, returned id = its id, its user, amount, units and
\* reference kept, every other transaction untouched); otherwise exactly one
\* transaction is appended and its id returned.
C4_MatchOrCreate ==
    \A p \in Payloads :
        Recorded(p) =>
            LET e == Matched(p)
                n == Len(db.transactions)
                r == saveCallbackTransaction(db, p)
            IN  IF e # 0
                THEN /\ Len(r.db.transactions) = n
                     /\ r.ret.success /\ r.ret.transaction_id = e
                     /\ \A i \in 1..n :
                            i # e => r.db.transactions[i] = db.transactions[i]
                     /\ r.db.transactions[e].user_id = db.transactions[e].user_id
                     /\ r.db.transactions[e].amount = db.transactions[e].amount
                     /\ r.db.transactions[e].units = db.transactions[e].units
                     /\ r.db.transactions[e].reference = p.OriginatorCoversationID
                     /\ r.db.transactions[e].mpesa_receipt = p.MpesaReceiptNumber
                ELSE /\ Len(r.db.transactions) = n + 1
                     /\ r.ret.success /\ r.ret.transaction_id = n + 1
                     /\ SubSeq(r.db.transactions, 1, n) = db.transactions
                     /\ r.db.transactions[n + 1].mpesa_receipt = p.MpesaReceiptNumber

\* C4 witness: an initiated transaction with reference K1 has been updated
\* by a callback, next to a transaction a callback created
C4_Witness ==
    \E i, j \in 1..Len(db.transactions) :
        /\ db.transactions[i].reference = "K1"
        /\ db.transactions[i].result_code # Undef
        /\ db.transactions[j].reference = Undef
        /\ db.transactions[j].result_code # Undef

\* C5: in every reachable state the available units of every user are >= 0,
\* as the recorder computes them and as the simulator computes them.
C5_AvailableNonNegative ==
    \A u \in Users :
        /\ calculateAvailableUnits(db, u) >= 0
        /\ serviceCalculateAvailableUnits(db, u) >= 0

\* C5 witness: a user whose consumption records sum to more than their
\* counted purchases, one of them written by a tick
C5_Witness ==
    \E u \in Users :
        /\ totalPurchasedUnits(db.transactions, u)
               < totalConsumedUnits(db.unit_consumption, u)
        /\ \E i \in 1..Len(db.unit_consumption) :
               /\ db.unit_consumption[i].user_id = u
               /\ db.unit_consumption[i].type = "automatic_consumption"

\* U: the units of the first n transactions that are u's and SUCCESS
RECURSIVE SuccessfulUnits(_, _)
SuccessfulUnits(u, n) ==
    IF n = 0 THEN 0
    ELSE LET t == db.transactions[n]
         IN  (IF t.user_id = u /\ t.status = "SUCCESS" /\ t.units # <<>>
              THEN t.units[1] ELSE 0) + SuccessfulUnits(u, n - 1)

\* C: the units of the first n consumption records that are u's
RECURSIVE ConsumedUnits(_, _)
ConsumedUnits(u, n) ==
    IF n = 0 THEN 0
    ELSE (IF db.unit_consumption[n].user_id = u
          THEN db.unit_consumption[n].units_consumed ELSE 0)
         + ConsumedUnits(u, n - 1)

\* x >= 0 rounded to the nearest 0.01 unit, halves up
Round2(x) ==
    CHOOSE r \in {100 * k : k \in 0..((x \div 100) + 1)} :
        r - x <= 50 /\ x - r < 50

\* C6: for a user whose SUCCESS transactions carry U units in total and
\* whose consumption records carry C units in total, with C <= U,
\* calculateAvailableUnits returns U - C rounded to two decimals.
C6_AvailableIsPurchasedMinusConsumed ==
    \A u \in Users :
        LET U == SuccessfulUnits(u, Len(db.transactions))
            C == ConsumedUnits(u, Len(db.unit_consumption))
        IN  C <= U => calculateAvailableUnits(db, u) = Round2(U - C)

\* C6 witness: a user with a SUCCESS transaction, another transaction that
\* is not SUCCESS, and consumption 0 < C <= U that leaves a difference with
\* more than two decimals
C6_Witness ==
    \E u \in Users :
        LET U == SuccessfulUnits(u, Len(db.transactions))
            C == ConsumedUnits(u, Len(db.unit_consumption))
        IN  /\ 0 < C /\ C <= U
            /\ (U - C) % 100 # 0
            /\ \E i \in 1..Len(db.transactions) :
                   /\ db.transactions[i].user_id = u
                   /\ db.transactions[i].status # "SUCCESS"
                   /\ db.transactions[i].units # <<>>

\* C7: every transaction written by initiation or by a callback carries
\* units = calculateUnits(amount).
C7_UnitsFromAmount ==
    \A i \in 1..Len(db.transactions) :
        LET t == db.transactions[i]
        IN  ~t.token => t.units = <<calculateUnits(t.amount)>>

\* C8: a tick of the running simulator, for each user with available units
\* a: when a <= 0 it writes no record and leaves the user as it was; when
\* a > 0 it writes exactly one record, whose units_consumed is
\* min(consumptionRate, a), is not greater than a, and whose units_after is
\* not negative.
C8_TickConsumesMinOfRateAndAvailable ==
    service.isRunning =>
        LET d2 == consumeUnitsForAllUsers(db)
            new == (Len(db.unit_consumption) + 1)..Len(d2.unit_consumption)
        IN  \A u \in Users :
                LET a == serviceCalculateAvailableUnits(db, u)
                    mine == {i \in new : d2.unit_consumption[i].user_id = u}
                IN  IF a <= 0
                    THEN mine = {} /\ d2.users[u] = db.users[u]
                    ELSE /\ Cardinality(mine) = 1
                         /\ \A i \in mine :
                              LET rec == d2.unit_consumption[i]
                              IN  /\ rec.units_consumed = Min(consumptionRate, a)
                                  /\ rec.units_consumed <= a
                                  /\ rec.units_after >= 0

\* only the recorder and the simulator have written to the store
OnlyRecorderAndSimulator ==
    /\ \A i \in 1..Len(db.transactions) : ~db.transactions[i].token
    /\ \A i \in 1..Len(db.unit_consumption) :
           db.unit_consumption[i].type = "automatic_consumption"

\* C9: between operations, as long as only initiations, callbacks and ticks
\* have written to the store, every user's balance field equals
\* calculateAvailableUnits of that user.
C9_BalanceIsAvailableUnits ==
    OnlyRecorderAndSimulator =>
        \A u \in Users : db.users[u].balance = calculateAvailableUnits(db, u)

\* C10: every step that changes a user's balance field leaves in it the
\* value calculateAvailableUnits returns for that user on the store as the
\* step left it.
C10_BalanceWrittenFromCalculator ==
    [][\A u \in Users :
          db'.users[u].balance # db.users[u].balance =>
              db'.users[u].balance = calculateAvailableUnits(db', u)]_vars

\* C12: a callback whose receipt number is already on a transaction returns
\* duplicate = true with the id of the transaction that carries the receipt
\* as its transaction_id, and adds no transaction.
C12_DuplicateNamesFirstTransaction ==
    \A p \in Payloads :
        (/\ p.MpesaReceiptNumber \in Receipts
         /\ Registered(p.BillRefNumber)
         /\ WithReceipt(db, p.MpesaReceiptNumber) # {}) =>
            LET r == saveCallbackTransaction(db, p)
            IN  /\ r.ret.duplicate
                /\ Len(r.db.transactions) = Len(db.transactions)
                /\ r.ret.transaction_id \in WithReceipt(db, p.MpesaReceiptNumber)

\* C13: a recorded callback with result code 0 (final status SUCCESS) leaves
\* the user's latest_transaction_id equal to the id of the transaction it
\* reconciled, and the user's balance equal to calculateAvailableUnits on
\* the store as the callback left it.
C13_SuccessUpdatesUser ==
    \A p \in Payloads :
        (p.ResultCode = "n0" /\ Recorded(p)) =>
            LET r == saveCallbackTransaction(db, p)
                u == CHOOSE v \in Users : db.users[v].meter_no = p.BillRefNumber
            IN  /\ r.ret.success
                /\ r.db.users[u].latest_transaction_id = r.ret.transaction_id
                /\ r.db.users[u].balance = calculateAvailableUnits(r.db, u)

\* C14: the simulator is stopped or running; at most one interval timer is
\* armed, and one is armed exactly when the simulator is running, after
\* any sequence of start() and stop() calls (repeated ones included).
C14_OneTimerIffRunning ==
    /\ service.isRunning \in BOOLEAN
    /\ service.timers <= 1
    /\ service.timers = 1 <=> service.isRunning
    /\ service.intervalId = "timer" <=> service.isRunning

\* C14 witness: the simulator runs with its one timer and ticks have been
\* written, so start() has acted
C14_Witness ==
    /\ service.isRunning /\ service.timers = 1
    /\ Len(db.unit_consumption) > 0

\* the raced payment, run from start to return on store d
RacedPayment(d) ==
    IF "reference" \in DOMAIN cb[1]
    THEN createTransactionForMeter(d, cb[1].meterNo, cb[1].amount,
                                   cb[1].status, cb[1].reference).db
    ELSE saveCallbackTransaction(d, cb[1].p).db

\* the stores the two serial executions of the raced operations leave
SerialOutcomes ==
    { consumeUnitsForAllUsers(RacedPayment(origin)),
      RacedPayment(consumeUnitsForAllUsers(origin)) }

\* C11: once a payment (initiation or callback) and a consumption cycle
\* that interleaved at their store calls have both returned,
\* calculateAvailableUnits of every user equals its value after one of the
\* two serial executions of the same two operations from the same store.
C11_RaceEqualsSerial ==
    (tick[1].pc = "done" /\ cb[1].pc = "done") =>
        \E serial \in SerialOutcomes :
            \A u \in Users :
                calculateAvailableUnits(db, u) = calculateAvailableUnits(serial, u)

\* C11 witness: both have returned, the payment added or changed a
\* transaction, the cycle wrote a record, and the two serial orders leave
\* different available units
C11_Witness ==
    /\ tick[1].pc = "done" /\ cb[1].pc = "done"
    /\ db.transactions # origin.transactions
    /\ Len(db.unit_consumption) > Len(origin.unit_consumption)
    /\ \E s1, s2 \in SerialOutcomes :
           calculateAvailableUnits(s1, "U1") # calculateAvailableUnits(s2, "U1")

\* a cycle starts in this step
TickStarts == \E s \in TickSlots : tick[s].pc \in {"idle", "done"}
                                   /\ tick'[s].pc \notin {"idle", "done"}

\* C15: a cycle starts only while the simulator is running, so none starts
\* between a stop() and the next start(); a cycle in flight can always take
\* its next step, stopped or not.
C15_NoTickAfterStop ==
    /\ [][TickStarts => service.isRunning]_vars
    /\ [](\A s \in TickSlots :
             tick[s].pc \notin {"idle", "done"} => ENABLED TickStep(s))

\* C15 witness: the simulator is stopped while a cycle is about to write the
\* record of a user it had dispatched
C15_Witness ==
    /\ ~service.isRunning
    /\ \E s \in TickSlots : tick[s].pc = "record"

\* C16: no two user records share an email and no two share a meter
\* number, whatever registrations ran, in sequence or interleaved, with
\* emails and meters that differ by case or surrounding blanks.
C16_UniqueEmailAndMeter ==
    \A u, v \in DOMAIN db.users :
        u # v => /\ db.users[u].email # db.users[v].email
                 /\ db.users[u].meter_no # db.users[v].meter_no

\* C17: a transaction created for an amount of A cents carries
\* A / 25 rounded to two decimals as units (4 * A in 1e-4 units) and
\* A modulo KSH 25 as remainder; of two transactions the one with the
\* larger amount has at least as many units; KSH 125 gives 5.00 units and
\* remainder 0, KSH 110 gives 4.40 units and remainder 10.
C17_UnitsAndRemainder ==
    /\ \A i \in 1..Len(db.transactions) :
          LET t == db.transactions[i]
          IN  /\ t.units = <<Round2(4 * t.amount)>>
              /\ t.remainder = <<t.amount - 2500 * (t.amount \div 2500)>>
              /\ t.amount = 12500 => t.units = <<50000>> /\ t.remainder = <<0>>
              /\ t.amount = 11000 => t.units = <<44000>> /\ t.remainder = <<1000>>
    /\ \A i, j \in 1..Len(db.transactions) :
          db.transactions[i].amount <= db.transactions[j].amount
              => db.transactions[i].units[1] <= db.transactions[j].units[1]

\* both purchases are stored, the second for KSH 110
C17_Witness ==
    /\ Len(db.transactions) = 2
    /\ db.transactions[2].amount = 11000
    /\ db.transactions[2].units = <<44000>>
    /\ db.transactions[1].amount = 10999

\* the store after k consumption cycles run one after the other
RECURSIVE AfterTicks(_, _)
AfterTicks(d, k) ==
    IF k = 0 THEN d ELSE AfterTicks(consumeUnitsForAllUsers(d), k - 1)

\* C18: from a store where the simulator finds A available units for a
\* user, after k consumption cycles with no purchase in between it finds
\* max(0, A - k * rate): never negative, and 0 from depletion on; from 5.00
\* units, 6 cycles leave 4.40.
C18_AvailableAfterTicks ==
    \A u \in Users, k \in 0..MaxTicksAhead :
        LET A == serviceCalculateAvailableUnits(db, u)
            after == serviceCalculateAvailableUnits(AfterTicks(db, k), u)
        IN  /\ after = (IF A - k * 1000 >= 0 THEN A - k * 1000 ELSE 0)
            /\ (A = 50000 /\ k = 6) => after = 44000

\* the same with the available units as the recorder computes them, rounded
\* to two decimals
AvailableAfterTicksRounded ==
    \A u \in Users, k \in 0..MaxTicksAhead :
        LET A == calculateAvailableUnits(db, u)
            after == calculateAvailableUnits(AfterTicks(db, k), u)
        IN  /\ after = (IF A - k * 1000 >= 0 THEN A - k * 1000 ELSE 0)
            /\ (A = 50000 /\ k = 6) => after = 44000

\* the units a device may report: POST /consume takes any number
ReportValues == {330, 0, -330}

\* C19: whatever units value a device reports for a meter, the total of
\* units_consumed over the records of a user is afterwards not less than
\* it was before.
C19_ConsumedNeverDecreases ==
    \A m \in MeterNos, n \in ReportValues, u \in Users :
        totalConsumedUnits(consumeUnits(db, m, n).unit_consumption, u)
            >= totalConsumedUnits(db.unit_consumption, u)

\* C20: every consumption record in the store carries the type tag and the
\* consumption rate the simulator writes.
C20_RecordsFromSimulator ==
    \A i \in 1..Len(db.unit_consumption) :
        /\ db.unit_consumption[i].type = "automatic_consumption"
        /\ db.unit_consumption[i].consumption_rate = <<consumptionRate>>

\* the number a balance field holds: a number, or a string that parses
\* to one; <<>> when it holds neither
NumericBalance(balance) ==
    CASE balance.type = "number" -> <<balance.num>>
      [] balance.type = "string" -> parseFloatOf(balance.str)
      [] OTHER -> <<>>

\* C21: the balance request for a meter answers 404 when no user has the
\* meter; otherwise 200 with the persisted balance rounded to two decimals
\* when the field holds a number, 0 included, and with
\* calculateAvailableUnits of the user when the field is absent or holds
\* no number.
C21_BalancePrefersPersisted ==
    \A s \in Slots :
        "response" \in DOMAIN cb[s] =>
            LET owners == {u \in Users : db.users[u].meter_no = cb[s].meterNo}
                r == cb[s].response
            IN  IF owners = {} THEN r.status = 404
                ELSE \E u \in owners :
                        LET n == NumericBalance(db.users[u].balance)
                        IN  /\ r.status = 200
                            /\ r.availableUnits =
                                   IF n # <<>> THEN <<Round2(n[1])>>
                                   ELSE <<calculateAvailableUnits(db, u)>>

\* a request was answered 0 from a persisted 0 while the recompute gives
\* more, and a request for a meter of no user was answered 404
C21_Witness ==
    /\ db.users["U1"].balance = JsNumber(0)
    /\ calculateAvailableUnits(db, "U1") > 0
    /\ "response" \in DOMAIN cb[1]
    /\ cb[1].meterNo = "M1"
    /\ cb[1].response.availableUnits = <<0>>
    /\ "response" \in DOMAIN cb[2]
    /\ cb[2].response.status = 404

\* the spellings of the legacy status
LegacyStatuses == {"completed", "COMPLETED", "Completed"}

\* a transaction of 1.00 unit for KSH 25 as earlier versions stored it
legacyTransaction(userId, status) ==
    [ user_id |-> userId, meter_no |-> MeterOf(userId), amount |-> 2500,
      units |-> <<10000>>, remainder |-> <<>>, status |-> status,
      reference |-> Undef, mpesa_receipt |-> Undef, phone_number |-> Undef,
      result_code |-> Undef, token |-> FALSE ]

\* C22: with one more transaction of 1.00 unit in the store,
\* calculateAvailableUnits of its user is 1.00 higher when the status of
\* that transaction is SUCCESS or the legacy status in any letter case, and
\* is what it was for every other status.
C22_CountsCompletedAnyCase ==
    \A u \in Users, st \in LegacyStatuses \cup {"SUCCESS", "PENDING", "FAILED"} :
        LET U == SuccessfulUnits(u, Len(db.transactions))
            C == ConsumedUnits(u, Len(db.unit_consumption))
            d == [db EXCEPT !.transactions = Append(@, legacyTransaction(u, st))]
            counted == IF st \in LegacyStatuses \cup {"SUCCESS"} THEN 10000 ELSE 0
        IN  calculateAvailableUnits(d, u) = Round2(Max(0, U + counted - C))

\* C23: a callback whose payload names no meter returns at once with
\* success=false and the message that the bill reference is required,
\* leaves the whole store as it was, and is answered with status 200.
C23_MissingBillRefAcknowledged ==
    [][\A s \in Slots :
          (/\ cb'[s] # cb[s]
           /\ "p" \in DOMAIN cb'[s]
           /\ cb'[s].p.BillRefNumber = Undef)
          => /\ db' = db
             /\ cb'[s].pc = "done"
             /\ ~cb'[s].ret.success
             /\ cb'[s].ret.message = "BillRefNumber is required"
             /\ darajaResponse(cb'[s]).status = 200]_vars

\* such a callback has returned on a store that holds a transaction
C23_Witness ==
    /\ cb[1].pc = "done"
    /\ "p" \in DOMAIN cb[1]
    /\ cb[1].p.BillRefNumber = Undef
    /\ ~cb[1].ret.success
    /\ Len(db.transactions) > 0

\* C24: saveCallbackTransaction never raises to the endpoint, whatever
\* store call was rejected, and every callback that has returned, whether
\* processed, duplicate, without bill reference, for a meter of no user or
\* after a rejected store call, is answered with status 200.
C24_CallbackAlwaysAnswered200 ==
    \A s \in Slots :
        "p" \in DOMAIN cb[s] =>
            /\ cb[s].pc # "thrown"
            /\ cb[s].pc = "done" => darajaResponse(cb[s]).status = 200

\* a callback returned after the write of its transaction was rejected
C24_Witness ==
    /\ cb[1].pc = "done"
    /\ "p" \in DOMAIN cb[1]
    /\ cb[1].ret.message = "store error"
    /\ cb[1].userId # Undef
    /\ darajaResponse(cb[1]).ResultCode = 1

\* C25: createTransactionForMeter for a meter that no user has ends by
\* throwing, and none of its steps changes the store: no transaction is
\* written and no user is touched.
C25_UnknownMeterThrows ==
    [][\A s \in Slots :
          (/\ "reference" \in DOMAIN cb[s]
           /\ cb[s].pc \notin {"idle", "done"}
           /\ \A u \in Users : db.users[u].meter_no # cb[s].meterNo
           /\ cb'[s] # cb[s])
          => /\ db' = db
             /\ cb'[s].pc = "done"
             /\ cb'[s].thrown]_vars

\* an initiation for meter M9 has thrown on a store that holds a transaction
C25_Witness ==
    /\ "reference" \in DOMAIN cb[1]
    /\ cb[1].meterNo = "M9"
    /\ cb[1].pc = "done"
    /\ cb[1].thrown
    /\ Len(db.transactions) > 0

\* the payload the README documents for the callback
ReadmePayloads ==
    [ meter_no : {"M1"}, amount : Amounts, mpesaRef : Receipts,
      status : {"COMPLETED"} ]

\* what saveCallbackTransaction reads of such a payload: of the fields it
\* looks up only amount is there
asExtracted(rp) ==
    [ ResultCode |-> Undef, MpesaReceiptNumber |-> Undef, Amount |-> rp.amount,
      BillRefNumber |-> Undef, OriginatorCoversationID |-> Undef,
      PhoneNumber |-> Undef ]

\* C26: a callback with the payload of the README (meter_no, amount,
\* mpesaRef, status) for the meter of a user is processed: it returns
\* success and the store then holds a transaction of that user for that
\* meter and amount.
C26_ReadmePayloadRecorded ==
    \A rp \in ReadmePayloads :
        LET r == saveCallbackTransaction(db, asExtracted(rp))
        IN  /\ r.ret.success
            /\ \E i \in 1..Len(r.db.transactions) :
                  /\ r.db.transactions[i].meter_no = rp.meter_no
                  /\ r.db.transactions[i].amount = rp.amount
                  /\ r.db.transactions[i].user_id \in Users
                  /\ r.db.users[r.db.transactions[i].user_id].meter_no = rp.meter_no

\* C27: a transaction created by a payment simulation is SUCCESS in the
\* store only when a callback has been recorded on it; until then it has
\* none of the statuses whose units count towards its user's balance.
C27_FinalOnlyAfterCallback ==
    \A i \in 1..Len(db.transactions) :
        LET t == db.transactions[i]
        IN  (~t.token /\ t.result_code = Undef) =>
                t.status \notin {"SUCCESS", "completed"}

\* C28: a cycle that has read the users takes them one after the other;
\* whatever store call is rejected while it is at one user, it goes on with
\* the same user or with the next, and ends only at the last of them.
C28_FailureDoesNotEndCycle ==
    [][\A s \in TickSlots :
          (tick[s].pc \notin {"idle", "done", "users"} /\ tick'[s] # tick[s])
          => /\ tick'[s].todo \in {tick[s].todo, Tail(tick[s].todo)}
             /\ tick'[s].pc = "done" => Len(tick[s].todo) = 1]_vars

\* a cycle has ended in which the write for U1 was rejected and U2, after
\* it, was served
C28_Witness ==
    /\ tick[1].pc = "done"
    /\ serviceCalculateAvailableUnits(origin, "U1") > 0
    /\ \A i \in 1..Len(db.unit_consumption) :
          db.unit_consumption[i].user_id # "U1" \/ i <= Len(origin.unit_consumption)
    /\ \E i \in 1..Len(db.unit_consumption) :
          db.unit_consumption[i].user_id = "U2"

\* the steps of an operation between the writes of its SUCCESS transaction
\* and of the balance: the recompute and its persistence
RecomputeSteps == {"ctCalcTx", "ctCalcCons", "ctBalance",
                   "calcTx", "calcCons", "balance"}

\* C29: while an operation recomputes and persists the balance after it
\* wrote a SUCCESS transaction, no step, rejected store calls included,
\* changes the transactions, the transaction keeps its status, and the
\* operation returns its success result; and on every store these runs
\* leave, a further payment whose store calls all succeed leaves the
\* persisted balance equal to calculateAvailableUnits.
C29_RecomputeFailureKeepsTransaction ==
    /\ [][\A s \in Slots :
            (cb[s].pc \in RecomputeSteps /\ cb'[s] # cb[s])
            => /\ db'.transactions = db.transactions
               /\ db'.transactions[cb[s].transactionId].status = "SUCCESS"
               /\ cb'[s].pc = "done" =>
                      IF "reference" \in DOMAIN cb[s] THEN ~cb'[s].thrown
                      ELSE cb'[s].ret.success]_vars
    /\ [](LET r == createTransactionForMeter(db, "M1", 310, "SUCCESS", Undef)
          IN  r.db.users["U1"].balance = calculateAvailableUnits(r.db, "U1"))

\* an initiation has returned its transaction although the recompute was
\* rejected: the transaction is SUCCESS and the persisted balance is not
\* what calculateAvailableUnits gives
C29_Witness ==
    /\ "reference" \in DOMAIN cb[1]
    /\ cb[1].pc = "done"
    /\ ~cb[1].thrown
    /\ cb[1].transactionId # 0
    /\ db.transactions[cb[1].transactionId].status = "SUCCESS"
    /\ db.users["U1"].balance # calculateAvailableUnits(db, "U1")

\* C30: when a processPayment and a consumeUnits on the same meter have
\* both returned, however their store calls interleaved, the meter balance
\* is what one of the two serial orders leaves, is not negative, and the
\* balance of the meter's user equals it.
C30_MeterRaceEqualsSerial ==
    (cb[1].pc = "done" /\ cb[2].pc = "done") =>
        LET paid == processPayment(origin, "U1", "M1", cb[1].amount, Undef)
            used == consumeUnits(origin, "M1", cb[2].reported)
            payFirst == consumeUnits(paid, "M1", cb[2].reported)
            useFirst == processPayment(used, "U1", "M1", cb[1].amount, Undef)
        IN  /\ db.meters["M1"].balance \in
                   {payFirst.meters["M1"].balance, useFirst.meters["M1"].balance}
            /\ db.meters["M1"].balance >= 0
            /\ db.users["U1"].balance = db.meters["M1"].balance

\* C31: for every user the units_consumed of their consumption records sum
\* to no more than the units of their SUCCESS transactions, in every state,
\* also while cycles overlap.
C31_ConsumedAtMostPurchased ==
    \A u \in Users :
        ConsumedUnits(u, Len(db.unit_consumption))
            <= SuccessfulUnits(u, Len(db.transactions))

\* the store with the units of transaction e taken as 0
WithoutUnits(d, e) == [d EXCEPT !.transactions[e].units = <<0>>]

\* recorded callbacks with a non-zero result code whose conversation id is
\* the reference of a SUCCESS transaction written at initiation
FailingMatches ==
    {p \in Payloads :
        /\ p.ResultCode = "n1"
        /\ Recorded(p)
        /\ Matched(p) # 0
        /\ db.transactions[Matched(p)].status = "SUCCESS"
        /\ db.transactions[Matched(p)].units # <<>>}

\* C32: a callback with a non-zero result code that matches by conversation
\* id a transaction recorded as SUCCESS at initiation turns it to FAILED,
\* calculateAvailableUnits then gives what it would give had the transaction
\* carried no units, and every user's persisted balance and
\* latest_transaction_id stay as they were.
C32_FailedCallbackKeepsBalance ==
    \A p \in FailingMatches :
        LET e == Matched(p)
            r == saveCallbackTransaction(db, p)
        IN  /\ r.ret.transaction_id = e
            /\ r.db.transactions[e].status = "FAILED"
            /\ \A u \in Users :
                   /\ calculateAvailableUnits(r.db, u)
                          = calculateAvailableUnits(WithoutUnits(db, e), u)
                   /\ r.db.users[u].balance = db.users[u].balance
                   /\ r.db.users[u].latest_transaction_id
                          = db.users[u].latest_transaction_id

\* C32 witness: the initiated transaction K1 was failed by a callback with a
\* non-zero result code while U1 still has its 0.12 units as balance and
\* the transaction as latest_transaction_id
C32_Witness ==
    \E i \in 1..Len(db.transactions) :
        /\ db.transactions[i].reference = "K1"
        /\ db.transactions[i].units = <<1200>>
        /\ db.transactions[i].status = "FAILED"
        /\ db.transactions[i].result_code = "n1"
        /\ db.users["U1"].balance = 1200
        /\ db.users["U1"].latest_transaction_id = i
        /\ calculateAvailableUnits(db, "U1") = 0

\* every latest_transaction_id of store d is null or the id of a transaction
\* of that same user
LatestOwned(d) ==
    \A u \in Users :
        LET id == d.users[u].latest_transaction_id
        IN  id # 0 => /\ id \in 1..Len(d.transactions)
                      /\ d.transactions[id].user_id = u

\* recorded callbacks whose conversation id is the reference of a transaction
\* of one user while the bill reference is the meter of another user
CrossUserCallbacks ==
    {p \in Payloads :
        /\ Recorded(p)
        /\ Matched(p) # 0
        /\ \E u \in Users :
               /\ db.users[u].meter_no = p.BillRefNumber
               /\ db.transactions[Matched(p)].user_id # u}

C34_ReceiptKept ==
    [][\A i \in 1..Len(db.transactions) :
          db.transactions[i].mpesa_receipt \in Receipts =>
              /\ i <= Len(db'.transactions)
              /\ db'.transactions[i].mpesa_receipt
                     = db.transactions[i].mpesa_receipt]_vars

\* C35: every consumption record, written by a cycle or by consumeUnits, has
\* units_after = units_before - units_consumed and units_after >= 0.
C35_RecordArithmetic ==
    \A i \in 1..Len(db.unit_consumption) :
        LET c == db.unit_consumption[i]
        IN  /\ c.units_after = c.units_before - c.units_consumed
            /\ c.units_after >= 0

\* the same for the records of the cycles alone
AutomaticRecordArithmetic ==
    \A i \in 1..Len(db.unit_consumption) :
        LET c == db.unit_consumption[i]
        IN  c.type = "automatic_consumption" =>
                /\ c.units_after = c.units_before - c.units_consumed
                /\ c.units_after >= 0

\* C36: when a read inside calculateAvailableUnits is rejected, the recorder
\* goes on with 0 and persists 0 as the user's balance, returning its
\* transaction; the cycle leaves the store as it is and passes to the next
\* user (or ends) without writing a record for the user.
C36_ReadFailureCountsAsZero ==
    /\ \A s \in Slots :
           ("reference" \in DOMAIN cb[s] /\ cb[s].pc \in {"ctCalcTx", "ctCalcCons"})
           => LET f == ctFail(db, cb[s])
                  g == ctStep(f.db, f.l)
              IN  /\ f.db = db
                  /\ f.l.pc = "ctBalance"
                  /\ g.db = [db EXCEPT !.users[cb[s].userId].balance = 0]
                  /\ g.l.pc = "done"
                  /\ ~g.l.thrown
    /\ \A s \in TickSlots :
           tick[s].pc \in {"readTx", "readCons"}
           => LET f == tickFail(db, tick[s])
              IN  /\ f.db = db
                  /\ f.l.todo = Tail(tick[s].todo)
                  /\ f.l.pc = IF Len(tick[s].todo) = 1 THEN "done" ELSE "readTx"

\* C36 witness: a payment for U1 has returned with 0 persisted as balance
\* while U1 has units, and a cycle has passed over U1, who has had units
\* from the start, without reaching the write of a record
C36_Witness ==
    /\ "reference" \in DOMAIN cb[1]
    /\ cb[1].pc = "done"
    /\ ~cb[1].thrown
    /\ db.users["U1"].balance = 0
    /\ calculateAvailableUnits(db, "U1") > 0
    /\ tick[1].pc = "readTx"
    /\ tick[1].todo = <<"U2">>
    /\ tick[1].availableUnits = 0
    /\ serviceCalculateAvailableUnits(origin, "U1") > 0
    /\ \A i \in 1..Len(db.unit_consumption) :
           db.unit_consumption[i].user_id # "U1"

\* C37: a callback never adds a transaction while a transaction with its
\* receipt number or with its conversation id as reference is in the store,
\* rejected lookups included.
C37_NoSecondAfterFailedLookup ==
    [][\A s \in Slots :
          ( /\ "p" \in DOMAIN cb[s]
            /\ cb'[s] # cb[s]
            /\ Len(db'.transactions) = Len(db.transactions) + 1 )
          => LET p == cb[s].p
             IN  /\ p.MpesaReceiptNumber \in Receipts
                        => WithReceipt(db, p.MpesaReceiptNumber) = {}
                 /\ p.OriginatorCoversationID \in ConversationIds
                        => \A i \in 1..Len(db.transactions) :
                               db.transactions[i].reference
                                   # p.OriginatorCoversationID]_vars

\* what is left to user u: the units of the SUCCESS transactions less the
\* units consumed, not below 0
UnitsLeft(u) ==
    LET left == SuccessfulUnits(u, Len(db.transactions))
                - ConsumedUnits(u, Len(db.unit_consumption))
    IN  IF left > 0 THEN left ELSE 0

\* the number of consumption records of user u in store d
RecordsOf(d, u) ==
    Cardinality({i \in 1..Len(d.unit_consumption) :
                    d.unit_consumption[i].user_id = u})

\* a record written for a user who has units left lowers what is left.  A
\* cycle decides by what is left alone, so a record that leaves the same
\* quantity is followed by the same record in every later cycle.
RecordsLowerUnitsLeft ==
    [][\A u \in Users :
          (RecordsOf(db', u) > RecordsOf(db, u) /\ UnitsLeft(u) > 0)
          => UnitsLeft(u)' < UnitsLeft(u)]_vars

\* C38: with the simulator running, no store call rejected and no further
\* payment, every user who has units left eventually has none (so every
\* record written on the way lowers what is left), and from a state where a
\* user has none no step adds a consumption record for them.
C38_EventuallyDepleted ==
    /\ \A u \in Users : (UnitsLeft(u) > 0) ~> (UnitsLeft(u) = 0)
    /\ RecordsLowerUnitsLeft
    /\ [][\A u \in Users :
             UnitsLeft(u) = 0 => RecordsOf(db', u) = RecordsOf(db, u)]_vars

\* the second half of C38 alone
NoRecordOnceDepleted ==
    [][\A u \in Users :
          UnitsLeft(u) = 0 => RecordsOf(db', u) = RecordsOf(db, u)]_vars

\* every unit quantity of the store is a multiple of 0.01 unit
Hundredths(d) ==
    /\ \A i \in 1..Len(d.transactions) :
           d.transactions[i].units # <<>> => d.transactions[i].units[1] % 100 = 0
    /\ \A i \in 1..Len(d.unit_consumption) :
           d.unit_consumption[i].units_consumed % 100 = 0

====
